---- MODULE Spec2Model ----
(***************************************************************************)
(* ASOIT Budget Builder (src/app.py): the Streamlit session as a state     *)
(* machine.  One action is one user event followed by the script run it    *)
(* triggers (the whole file, top to bottom, and the second run that        *)
(* st.rerun() starts).  Text the code trims or matches against EMAIL_RE is *)
(* a tuple of one-character strings; category strings are only compared    *)
(* and concatenated and stay TLA+ strings.  Money is counted in cents.     *)
(***************************************************************************)
EXTENDS Integers, Sequences, FiniteSets, TLC

\* ------------------------------------------------------------------ bounds

\* Largest number of rows the budget table is explored with.
MaxRows == 2

\* Longest text typed into a Club Info field in the exhaustive exploration.
MaxLen == 5

\* ------------------------------------------------- category definitions

CATEGORY_TREE ==
  << << "Capital Expenses",
        << "Computers",
           "Equipment reusable parts",
           "Storage totes",
           "Items that cost more than organizational supplies and will last more than one year" >> >>,
     << "Organizational Supplies",
        << "National membership dues",
           "Office supplies",
           "Gloves/masks",
           "Items needed for general club operations that aren't for an event and won't last more than one year" >> >>,
     << "Marketing Expenses",
        << "Printing costs",
           "Banners/trifolds",
           "Decorations for a campus display",
           "Promotional materials that aren't club gear" >> >>,
     << "Club Gear",
        << "T-shirts",
           "Sweatshirts",
           "Jackets",
           "Wearable items featuring your club's logo" >> >>,
     << "Event Supplies",
        << "Food/snacks",
           "Decorations",
           "Items needed to host and run events" >> >> >>

INDENT == "   "

HEADER_SUFFIX == ":"

\* display = f"{INDENT}{sub}"
DisplayOf(sub) == INDENT \o sub

\* f"{main}/{sub}"
ValueOf(main, sub) == main \o "/" \o sub

\* The inner loop's appends to display_items for one main category.
SubDisplays(subs) == [i \in 1..Len(subs) |-> DisplayOf(subs[i])]

\* The inner loop's assignments display_to_value[display] = ..., in order: a
\* later assignment to the same key overwrites an earlier one.
RECURSIVE SubValues(_, _, _)
SubValues(main, subs, d) ==
  IF subs = << >> THEN d
  ELSE SubValues(main, Tail(subs),
                 (DisplayOf(Head(subs)) :> ValueOf(main, Head(subs))) @@ d)

\* The outer loop's display_items: header, indented subs, blank spacer.
RECURSIVE AllDisplays(_)
AllDisplays(tree) ==
  IF tree = << >> THEN << >>
  ELSE << Head(tree)[1] \o HEADER_SUFFIX >> \o SubDisplays(Head(tree)[2])
       \o << "" >> \o AllDisplays(Tail(tree))

\* while display_items and display_items[-1] == "": display_items.pop()
RECURSIVE PopTrailingBlanks(_)
PopTrailingBlanks(items) ==
  IF items # << >> /\ items[Len(items)] = ""
  THEN PopTrailingBlanks(SubSeq(items, 1, Len(items) - 1))
  ELSE items

RECURSIVE AllValues(_, _)
AllValues(tree, d) ==
  IF tree = << >> THEN d
  ELSE AllValues(Tail(tree), SubValues(Head(tree)[1], Head(tree)[2], d))

\* build_category_dropdown_items: <<display_items, display_to_value>>
build_category_dropdown_items(tree) ==
  << PopTrailingBlanks(AllDisplays(tree)), AllValues(tree, [x \in {} |-> ""]) >>

DISPLAY_ITEMS == build_category_dropdown_items(CATEGORY_TREE)[1]

DISPLAY_TO_VALUE == build_category_dropdown_items(CATEGORY_TREE)[2]

\* ------------------------------------------------------ text and numbers

\* str.strip() and the regex class \s: the whitespace characters.
IsSpace(c) == c \in {" ", "\t"}

\* The first position at or after i that holds no whitespace (Len(s) + 1 if none).
RECURSIVE LStrip(_, _)
LStrip(s, i) == IF i <= Len(s) /\ IsSpace(s[i]) THEN LStrip(s, i + 1) ELSE i

\* The last position at or before j that holds no whitespace (0 if none).
RECURSIVE RStrip(_, _)
RStrip(s, j) == IF j >= 1 /\ IsSpace(s[j]) THEN RStrip(s, j - 1) ELSE j

\* s.strip()
Strip(s) == SubSeq(s, LStrip(s, 1), RStrip(s, Len(s)))

\* The character class [^@\s] of EMAIL_RE.
EmailChar(c) == c # "@" /\ ~IsSpace(c)

\* One or more characters of [^@\s] filling s[from..to].
EmailRun(s, from, to) == from <= to /\ \A k \in from..to : EmailChar(s[k])

\* A match of the same shape that asks for no ".tld" part.
EmailReNoTld(s) ==
  \E at \in 1..Len(s) :
    /\ s[at] = "@"
    /\ EmailRun(s, 1, at - 1)
    /\ EmailRun(s, at + 1, Len(s))

\* EMAIL_RE.match(s) for EMAIL_RE = ^[^@\s]+@[^@\s]+\.[^@\s]+$ : some "@" and
\* some later "." split s into three non-empty runs of [^@\s].
EMAIL_RE(s) ==
  \E at \in 1..Len(s) :
    /\ s[at] = "@"
    /\ EmailRun(s, 1, at - 1)
    /\ \E dot \in (at + 1)..Len(s) :
         /\ s[dot] = "."
         /\ EmailRun(s, at + 1, dot - 1)
         /\ EmailRun(s, dot + 1, Len(s))

\* An email check whose pattern asks for no ".tld" part.
is_valid_email_without_tld(s) == EmailReNoTld(Strip(s))

\* is_valid_email: s = (s or "").strip(); bool(EMAIL_RE.match(s))
is_valid_email(s) == EMAIL_RE(Strip(s))

\* ------------------------------------------------------------- Club Info

NAME_REQUIRED == "Official Club Name is required."

PRESIDENT_INVALID == "President Email must be a valid email address."

TREASURER_INVALID == "Treasurer Email must be a valid email address."

ADVISOR_INVALID == "Advisor Email must be a valid email address."

CLUB_INFO_WARNING ==
  "Please complete the required Club Info fields before exporting or adding items."

\* The list club_errors, in the order of its appends.
club_errors(name, president, treasurer, advisor) ==
  (IF Strip(name) = << >> THEN << NAME_REQUIRED >> ELSE << >>)
  \o (IF ~is_valid_email(president) THEN << PRESIDENT_INVALID >> ELSE << >>)
  \o (IF ~is_valid_email(treasurer) THEN << TREASURER_INVALID >> ELSE << >>)
  \o (IF ~is_valid_email(advisor) THEN << ADVISOR_INVALID >> ELSE << >>)

\* ------------------------------------------------------- the data frame

\* None in a text cell of the frame (a cell the grid left unset).
NONE == "<None>"

\* None in the Description column, whose other values are character tuples.
NONE_TEXT == << NONE >>

\* NaN in a numeric column: what pd.to_numeric(errors="coerce") gives for a
\* missing or non-numeric cell.  No input below takes this value.
NaN == -10000

\* A coercion that leaves the missing value in place.
to_numeric_only(x) == x

\* pd.to_numeric(x, errors="coerce").fillna(0), cell by cell.
to_numeric_fillna0(x) == IF x = NaN THEN 0 ELSE x

\* .fillna("") of the Description column, cell by cell.
fillna_empty(d) == IF d = NONE_TEXT THEN << >> ELSE d

\* The row the add form builds (new_row).
new_row(f, total_amount) ==
  [ Expense_Category |-> DISPLAY_TO_VALUE[f.selected_display],
    Description      |-> Strip(f.description),
    Qty              |-> f.qty,
    Amount           |-> f.amount,
    Total_Amount     |-> total_amount,
    Date             |-> f.expense_date ]

\* The row the grid appends when the user adds one: every cell unset.
EmptyGridRow ==
  [ Expense_Category |-> NONE,
    Description      |-> NONE_TEXT,
    Qty              |-> NaN,
    Amount           |-> NaN,
    Total_Amount     |-> NaN,
    Date             |-> NONE ]

\* No grid interaction in this run.
NoEdit == [kind |-> "none", row |-> 0, text |-> << >>, num |-> 0, str |-> ""]

RemoveAt(df, i) == SubSeq(df, 1, i - 1) \o SubSeq(df, i + 1, Len(df))

\* st.data_editor(df, num_rows="dynamic", disabled=["Total Amount"]): the frame
\* it returns for the user's edit e.  Total Amount takes no edit.
data_editor(df, e) ==
  CASE e.kind = "Expense Category" ->
         [df EXCEPT ![e.row].Expense_Category = e.str]
    [] e.kind = "Description" -> [df EXCEPT ![e.row].Description = e.text]
    [] e.kind = "Qty." -> [df EXCEPT ![e.row].Qty = e.num]
    [] e.kind = "Amount" -> [df EXCEPT ![e.row].Amount = e.num]
    [] e.kind = "Date" -> [df EXCEPT ![e.row].Date = e.str]
    [] e.kind = "add row" -> Append(df, EmptyGridRow)
    [] e.kind = "delete row" -> RemoveAt(df, e.row)
    [] OTHER -> df

\* Lines 213-214: Qty., Amount and Total Amount made numeric before the grid.
EnsureNumeric(df) ==
  [i \in 1..Len(df) |->
     [df[i] EXCEPT !.Qty = to_numeric_fillna0(@),
                   !.Amount = to_numeric_fillna0(@),
                   !.Total_Amount = to_numeric_fillna0(@)]]

\* A recalculation that coerces Qty. and Amount and leaves Total Amount as the
\* grid returned it.
RecalcKeepingTotal(df) ==
  [i \in 1..Len(df) |->
     [df[i] EXCEPT !.Qty = to_numeric_fillna0(@),
                   !.Amount = to_numeric_fillna0(@)]]

\* Lines 225-228: Qty. and Amount coerced, Total Amount = Qty. * Amount.
Recalc(df) ==
  [i \in 1..Len(df) |->
     [df[i] EXCEPT !.Qty = to_numeric_fillna0(@),
                   !.Amount = to_numeric_fillna0(@),
                   !.Total_Amount =
                      to_numeric_fillna0(df[i].Qty) * to_numeric_fillna0(df[i].Amount)]]

\* A scan for blank descriptions that does not trim them.
blank_desc_untrimmed(df) ==
  {i \in 1..Len(df) : fillna_empty(df[i].Description) = << >>}

\* blank_desc, as the set of row numbers it marks.
blank_desc(df) ==
  {i \in 1..Len(df) : Strip(fillna_empty(df[i].Description)) = << >>}

\* A sum taken over the Amount column instead of Total Amount.
RECURSIVE SumOfAmounts(_)
SumOfAmounts(df) ==
  IF df = << >> THEN 0 ELSE Head(df).Amount + SumOfAmounts(Tail(df))

\* edited_df["Total Amount"].sum()
RECURSIVE SumTotals(_)
SumTotals(df) ==
  IF df = << >> THEN 0 ELSE Head(df).Total_Amount + SumTotals(Tail(df))

\* ----------------------------------------------------------- add form

CLUB_INFO_ERROR == "Fix Club Info fields above before adding line items."

HEADER_ERROR == "Please select a sub-category (the indented items), not a header."

DESCRIPTION_ERROR == "Description is required."

\* A run in which the form was not submitted.
NoForm ==
  [ submitted |-> FALSE, selected_display |-> "", description |-> << >>,
    qty |-> 1, amount |-> 0, expense_date |-> NONE ]

\* total_amount = float(qty) * float(amount)
total_amount(f) == f.qty * f.amount

\* A branch of the "if submitted:" block that only raises st.error(msg).
Rejected(df, last_valid, msg) ==
  [expenses_df |-> df, last_valid |-> last_valid, errors |-> {msg}]

\* Its last branch: the category remembered, new_row concatenated at the end.
Accepted(df, f) ==
  [ expenses_df |-> Append(df, new_row(f, total_amount(f))),
    last_valid  |-> f.selected_display,
    errors      |-> {} ]

\* A form handler that does not look at club_errors.
add_expense_without_club_gate(df, last_valid, cerrs, f) ==
  IF ~f.submitted
  THEN [expenses_df |-> df, last_valid |-> last_valid, errors |-> {}]
  ELSE IF f.selected_display \notin DOMAIN DISPLAY_TO_VALUE
  THEN Rejected(df, last_valid, HEADER_ERROR)
  ELSE IF Strip(f.description) = << >>
  THEN Rejected(df, last_valid, DESCRIPTION_ERROR)
  ELSE Accepted(df, f)

\* A form handler that checks the description before the category.
add_expense_description_first(df, last_valid, cerrs, f) ==
  IF ~f.submitted
  THEN [expenses_df |-> df, last_valid |-> last_valid, errors |-> {}]
  ELSE IF cerrs # << >>
  THEN Rejected(df, last_valid, CLUB_INFO_ERROR)
  ELSE IF Strip(f.description) = << >>
  THEN Rejected(df, last_valid, DESCRIPTION_ERROR)
  ELSE IF f.selected_display \notin DOMAIN DISPLAY_TO_VALUE
  THEN Rejected(df, last_valid, HEADER_ERROR)
  ELSE Accepted(df, f)

\* A form handler that tests the description without trimming it.
add_expense_untrimmed_check(df, last_valid, cerrs, f) ==
  IF ~f.submitted
  THEN [expenses_df |-> df, last_valid |-> last_valid, errors |-> {}]
  ELSE IF cerrs # << >>
  THEN Rejected(df, last_valid, CLUB_INFO_ERROR)
  ELSE IF f.selected_display \notin DOMAIN DISPLAY_TO_VALUE
  THEN Rejected(df, last_valid, HEADER_ERROR)
  ELSE IF f.description = << >>
  THEN Rejected(df, last_valid, DESCRIPTION_ERROR)
  ELSE Accepted(df, f)

\* A form handler that puts the new row first.
add_expense_prepending(df, last_valid, cerrs, f) ==
  IF ~f.submitted
  THEN [expenses_df |-> df, last_valid |-> last_valid, errors |-> {}]
  ELSE IF cerrs # << >>
  THEN Rejected(df, last_valid, CLUB_INFO_ERROR)
  ELSE IF f.selected_display \notin DOMAIN DISPLAY_TO_VALUE
  THEN Rejected(df, last_valid, HEADER_ERROR)
  ELSE IF Strip(f.description) = << >>
  THEN Rejected(df, last_valid, DESCRIPTION_ERROR)
  ELSE [Accepted(df, f) EXCEPT
          !.expenses_df = << new_row(f, total_amount(f)) >> \o df]

\* A form handler that remembers the category before it checks the description.
add_expense_remembering_early(df, last_valid, cerrs, f) ==
  IF ~f.submitted
  THEN [expenses_df |-> df, last_valid |-> last_valid, errors |-> {}]
  ELSE IF cerrs # << >>
  THEN Rejected(df, last_valid, CLUB_INFO_ERROR)
  ELSE IF f.selected_display \notin DOMAIN DISPLAY_TO_VALUE
  THEN Rejected(df, last_valid, HEADER_ERROR)
  ELSE IF Strip(f.description) = << >>
  THEN Rejected(df, f.selected_display, DESCRIPTION_ERROR)
  ELSE Accepted(df, f)

\* A form handler that checks the category before Club Info.
add_expense_category_first(df, last_valid, cerrs, f) ==
  IF ~f.submitted
  THEN [expenses_df |-> df, last_valid |-> last_valid, errors |-> {}]
  ELSE IF f.selected_display \notin DOMAIN DISPLAY_TO_VALUE
  THEN Rejected(df, last_valid, HEADER_ERROR)
  ELSE IF cerrs # << >>
  THEN Rejected(df, last_valid, CLUB_INFO_ERROR)
  ELSE IF Strip(f.description) = << >>
  THEN Rejected(df, last_valid, DESCRIPTION_ERROR)
  ELSE Accepted(df, f)

\* A form handler that remembers whatever entry was selected, header or not.
add_expense_remembering_any(df, last_valid, cerrs, f) ==
  IF ~f.submitted
  THEN [expenses_df |-> df, last_valid |-> last_valid, errors |-> {}]
  ELSE IF cerrs # << >>
  THEN Rejected(df, last_valid, CLUB_INFO_ERROR)
  ELSE IF f.selected_display \notin DOMAIN DISPLAY_TO_VALUE
  THEN Rejected(df, f.selected_display, HEADER_ERROR)
  ELSE IF Strip(f.description) = << >>
  THEN Rejected(df, last_valid, DESCRIPTION_ERROR)
  ELSE Accepted(df, f)

\* The "if submitted:" block: the session's frame and remembered category after
\* it, and the st.error messages it raised.
add_expense(df, last_valid, cerrs, f) ==
  IF ~f.submitted
  THEN [expenses_df |-> df, last_valid |-> last_valid, errors |-> {}]
  ELSE IF cerrs # << >>
  THEN Rejected(df, last_valid, CLUB_INFO_ERROR)
  ELSE IF f.selected_display \notin DOMAIN DISPLAY_TO_VALUE
  THEN Rejected(df, last_valid, HEADER_ERROR)
  ELSE IF Strip(f.description) = << >>
  THEN Rejected(df, last_valid, DESCRIPTION_ERROR)
  ELSE Accepted(df, f)

\* ------------------------------------------------- table, total, export

NO_ITEMS_INFO == "No line items yet. Add one above."

BLANK_DESCRIPTION_WARNING ==
  "One or more rows have a blank Description. Please fill them in before exporting."

EXPORT_HELP ==
  "Fill Club Info and ensure every row has a Description before exporting."

\* A widget the run did not render.
NotRendered == [rendered |-> FALSE]

\* An export gate that looks at Club Info only.
can_export_ignoring_descriptions(cerrs, edited_df) == cerrs = << >>

\* can_export = (not club_errors) and (not blank_desc.any())
can_export(cerrs, edited_df) == cerrs = << >> /\ blank_desc(edited_df) = {}

\* The columns of st.session_state.expenses_df, in the frame's order.
COLUMNS ==
  << "Expense Category", "Description", "Qty.", "Amount", "Total Amount", "Date" >>

\* An insert that puts the new column after the frame's own.
insert_last(columns, loc, column) == Append(columns, column)

\* DataFrame.insert(loc, column, value), on the list of column names.
insert(columns, loc, column) ==
  SubSeq(columns, 1, loc) \o << column >> \o SubSeq(columns, loc + 1, Len(columns))

\* The columns of export_df after its four inserts.
export_columns ==
  insert(insert(insert(insert(COLUMNS, 0, "Official Club Name"),
                       1, "President Email"),
                2, "Treasurer Email"),
         3, "Advisor Email")

\* export_df: the four Club Info columns inserted before the frame's own.
export_df(edited_df, name, president, treasurer, advisor) ==
  LET c1 == Strip(name)
      c2 == Strip(president)
      c3 == Strip(treasurer)
      c4 == Strip(advisor)
  IN [i \in 1..Len(edited_df) |->
        [ Official_Club_Name |-> c1,
          President_Email    |-> c2,
          Treasurer_Email    |-> c3,
          Advisor_Email      |-> c4,
          Expense_Category   |-> edited_df[i].Expense_Category,
          Description        |-> edited_df[i].Description,
          Qty                |-> edited_df[i].Qty,
          Amount             |-> edited_df[i].Amount,
          Total_Amount       |-> edited_df[i].Total_Amount,
          Date               |-> edited_df[i].Date ]]

\* One field of a line of the CSV: the row's cell in that column, a missing
\* value (None) written as the empty field.
csv_field(row, column) ==
  CASE column = "Official Club Name" -> row.Official_Club_Name
    [] column = "President Email" -> row.President_Email
    [] column = "Treasurer Email" -> row.Treasurer_Email
    [] column = "Advisor Email" -> row.Advisor_Email
    [] column = "Expense Category" ->
         IF row.Expense_Category = NONE THEN "" ELSE row.Expense_Category
    [] column = "Description" -> fillna_empty(row.Description)
    [] column = "Qty." -> row.Qty
    [] column = "Amount" -> row.Amount
    [] column = "Total Amount" -> row.Total_Amount
    [] column = "Date" -> IF row.Date = NONE THEN "" ELSE row.Date

\* export_df.to_csv(index=False): the header line, then one line per row, each
\* a tuple of fields in the order of the columns.
to_csv(frame, columns) ==
  << columns >> \o
  [i \in 1..Len(frame) |-> [k \in 1..Len(columns) |-> csv_field(frame[i], columns[k])]]

\* A download button that never carries the help text.
download_button_without_help(data, enabled) ==
  [rendered |-> TRUE, data |-> data, disabled |-> ~enabled, help |-> NONE]

\* A download button whose disabled flag is the export gate itself.
download_button_inverted(data, enabled) ==
  [ rendered |-> TRUE,
    data     |-> data,
    disabled |-> enabled,
    help     |-> IF enabled THEN NONE ELSE EXPORT_HELP ]

\* st.download_button(..., disabled=not can_export, help=...)
download_button(data, enabled) ==
  [ rendered |-> TRUE,
    data     |-> data,
    disabled |-> ~enabled,
    help     |-> IF enabled THEN NONE ELSE EXPORT_HELP ]

\* Lines 207-260 for the session frame df0 and the grid edit e: the frame stored
\* back and what the section renders.
table_section(df0, e, cerrs, name, president, treasurer, advisor) ==
  IF df0 = << >>
  THEN [ expenses_df |-> df0,
         info        |-> {NO_ITEMS_INFO},
         warnings    |-> {},
         grand_total |-> NotRendered,
         download    |-> NotRendered,
         budget_editor |-> NotRendered,
         clear_button  |-> NotRendered ]
  ELSE LET edited_df == Recalc(data_editor(EnsureNumeric(df0), e))
       IN [ expenses_df |-> edited_df,
            info        |-> {},
            warnings    |-> IF blank_desc(edited_df) # {}
                            THEN {BLANK_DESCRIPTION_WARNING} ELSE {},
            grand_total |-> [rendered |-> TRUE, value |-> SumTotals(edited_df)],
            download    |-> download_button(
                              to_csv(export_df(edited_df, name, president,
                                               treasurer, advisor),
                                     export_columns),
                              can_export(cerrs, edited_df)),
            budget_editor |-> [rendered |-> TRUE],
            clear_button  |-> [rendered |-> TRUE] ]

\* One run of the script, top to bottom, with this run's widget inputs.
run_once(name, president, treasurer, advisor, df0, last_valid, f, e) ==
  LET cerrs == club_errors(name, president, treasurer, advisor)
      form  == add_expense(df0, last_valid, cerrs, f)
      table == table_section(form.expenses_df, e, cerrs,
                             name, president, treasurer, advisor)
  IN [ expenses_df |-> table.expenses_df,
       last_valid  |-> form.last_valid,
       captions    |-> cerrs,
       errors      |-> form.errors,
       warnings    |-> (IF cerrs # << >> THEN {CLUB_INFO_WARNING} ELSE {})
                       \cup table.warnings,
       info        |-> table.info,
       grand_total |-> table.grand_total,
       download    |-> table.download,
       budget_editor |-> table.budget_editor,
       clear_button  |-> table.clear_button ]

\* A clear that drops nothing.
ClearKeepingRows(df) == df

\* st.session_state.expenses_df.iloc[0:0]
iloc_0_0(df) == SubSeq(df, 1, 0)

\* The run an event triggers.  "Clear all line items" is read where the
\* button is rendered, at the end of the table section: a click empties the
\* frame and st.rerun() runs the script once more, with no widget input.
script_run(name, president, treasurer, advisor, df0, last_valid, f, e, press) ==
  LET first == run_once(name, president, treasurer, advisor, df0, last_valid, f, e)
      pressed == press /\ first.clear_button.rendered
      last == IF pressed
              THEN run_once(name, president, treasurer, advisor,
                            iloc_0_0(first.expenses_df), first.last_valid,
                            NoForm, NoEdit)
              ELSE first
  IN [ page |-> last, cleared |-> pressed ]

\* next((x for x in DISPLAY_ITEMS if x in DISPLAY_TO_VALUE), None)
RECURSIVE first_in(_, _)
first_in(items, d) ==
  IF items = << >> THEN NONE
  ELSE IF Head(items) \in DOMAIN d THEN Head(items) ELSE first_in(Tail(items), d)

first_valid == first_in(DISPLAY_ITEMS, DISPLAY_TO_VALUE)

\* ----------------------------------------------------------------- state

VARIABLES
  official_club_name,           \* the four Club Info text inputs
  president_email,
  treasurer_email,
  advisor_email,
  expenses_df,                  \* st.session_state.expenses_df
  last_valid_category_display,  \* st.session_state.last_valid_category_display
  captions,                     \* the page the last run rendered: st.caption lines,
  errors,                       \*   st.error messages,
  warnings,                     \*   st.warning messages,
  info,                         \*   st.info messages,
  grand_total,                  \*   the Grand Total metric,
  download,                     \*   the Download CSV button,
  budget_editor,                \*   the editable grid,
  clear_button,                 \*   the "Clear all line items" button
  submitted,                    \* st.form_submit_button's value in the event's run
  clicked,                      \* the event was a press of "Clear all line items"
  cleared                       \* the event's run took the clear branch and reran

club == << official_club_name, president_email, treasurer_email, advisor_email >>

session == << expenses_df, last_valid_category_display >>

page == << captions, errors, warnings, info, grand_total, download,
           budget_editor, clear_button >>

event == << submitted, clicked, cleared >>

vars == << club, session, page, event >>

\* The session and the page after an event's run.
Shows(run) ==
  /\ cleared' = run.cleared
  /\ expenses_df' = run.page.expenses_df
  /\ last_valid_category_display' = run.page.last_valid
  /\ captions' = run.page.captions
  /\ errors' = run.page.errors
  /\ warnings' = run.page.warnings
  /\ info' = run.page.info
  /\ grand_total' = run.page.grand_total
  /\ download' = run.page.download
  /\ budget_editor' = run.page.budget_editor
  /\ clear_button' = run.page.clear_button

\* The first run of a new session: empty text inputs, no session state yet.
FirstRun == run_once(<< >>, << >>, << >>, << >>, << >>, first_valid, NoForm, NoEdit)

Init ==
  /\ official_club_name = << >>
  /\ president_email = << >>
  /\ treasurer_email = << >>
  /\ advisor_email = << >>
  /\ submitted = FALSE
  /\ clicked = FALSE
  /\ cleared = FALSE
  /\ expenses_df = FirstRun.expenses_df
  /\ last_valid_category_display = FirstRun.last_valid
  /\ captions = FirstRun.captions
  /\ errors = FirstRun.errors
  /\ warnings = FirstRun.warnings
  /\ info = FirstRun.info
  /\ grand_total = FirstRun.grand_total
  /\ download = FirstRun.download
  /\ budget_editor = FirstRun.budget_editor
  /\ clear_button = FirstRun.clear_button

\* ---------------------------------------------------------------- inputs

\* "name@oit" and "name@oit.edu", the placeholder's address.
NAME_AT_OIT == << "n", "a", "m", "e", "@", "o", "i", "t" >>

NAME_AT_OIT_EDU == NAME_AT_OIT \o << ".", "e", "d", "u" >>

\* A short address the pattern accepts.
A_AT_B_C == << "a", "@", "b", ".", "c" >>

NameInputs == { << >>, << "C" >> }

EmailInputs == { << >>, A_AT_B_C }

\* A header, a blank spacer, the first leaf and a leaf of the last main category.
SelectInputs ==
  { DISPLAY_ITEMS[1], "", DisplayOf("Computers"), DisplayOf("Food/snacks") }

DescriptionInputs == { << >>, << " " >>, << " ", "P", " " >> }

\* st.number_input(min_value=0, step=1) and (min_value=0.0): no negative input.
QtyInputs == { 3 }

AmountInputs == { 1250 }

DateInputs == { "2024-05-01" }

FormInputs ==
  [ submitted : {TRUE}, selected_display : SelectInputs,
    description : DescriptionInputs, qty : QtyInputs, amount : AmountInputs,
    expense_date : DateInputs ]

\* What the user types into one cell of the grid.  A numeric cell that is
\* cleared comes back as NaN; the grid sets no minimum on a number.
CellEdits(df) ==
  [ kind : {"Description"}, row : 1..Len(df),
    text : { << "P" >> }, num : {0}, str : {""} ]
  \cup [ kind : {"Qty."}, row : 1..Len(df),
         text : {<< >>}, num : { -1 }, str : {""} ]

AddRowEdit == [NoEdit EXCEPT !.kind = "add row"]

DeleteRowEdit(i) == [NoEdit EXCEPT !.kind = "delete row", !.row = i]

\* --------------------------------------------------------------- events

\* An event: the widget values it leaves, and the run it triggers.
Rerun(name, president, treasurer, advisor, f, e, press) ==
  /\ official_club_name' = name
  /\ president_email' = president
  /\ treasurer_email' = treasurer
  /\ advisor_email' = advisor
  /\ submitted' = f.submitted
  /\ clicked' = press
  /\ \E r \in { script_run(name, president, treasurer, advisor, expenses_df,
                             last_valid_category_display, f, e, press) } :
       /\ Len(r.page.expenses_df) <= MaxRows
       /\ Shows(r)

\* The user changes one Club Info text input.
SetOfficialClubName(v) ==
  /\ v # official_club_name
  /\ Rerun(v, president_email, treasurer_email, advisor_email, NoForm, NoEdit, FALSE)

SetPresidentEmail(v) ==
  /\ v # president_email
  /\ Rerun(official_club_name, v, treasurer_email, advisor_email, NoForm, NoEdit, FALSE)

SetTreasurerEmail(v) ==
  /\ v # treasurer_email
  /\ Rerun(official_club_name, president_email, v, advisor_email, NoForm, NoEdit, FALSE)

SetAdvisorEmail(v) ==
  /\ v # advisor_email
  /\ Rerun(official_club_name, president_email, treasurer_email, v, NoForm, NoEdit, FALSE)

\* The user presses "Add Line Item" with the form filled as f.
AddLineItem(f) ==
  /\ f.submitted
  /\ Rerun(official_club_name, president_email, treasurer_email, advisor_email,
           f, NoEdit, FALSE)

\* The user edits the grid the page shows: a cell, a new row, a deleted row.
GridEdit(e) ==
  /\ budget_editor.rendered
  /\ Rerun(official_club_name, president_email, treasurer_email, advisor_email,
           NoForm, e, FALSE)

EditCell == \E e \in CellEdits(expenses_df) : GridEdit(e)

AddRow ==
  /\ budget_editor.rendered
  /\ Rerun(official_club_name, president_email, treasurer_email, advisor_email,
           NoForm, AddRowEdit, FALSE)

DeleteRow == \E i \in 1..Len(expenses_df) : GridEdit(DeleteRowEdit(i))

\* The user presses "Clear all line items".
ClearAll ==
  /\ clear_button.rendered
  /\ Rerun(official_club_name, president_email, treasurer_email, advisor_email,
           NoForm, NoEdit, TRUE)

\* The user reloads the page: a run with no widget changed.
Refresh ==
  /\ TRUE
  /\ Rerun(official_club_name, president_email, treasurer_email, advisor_email,
           NoForm, NoEdit, FALSE)

Next ==
  \/ \E v \in NameInputs \ {<< >>} : SetOfficialClubName(v)
  \/ \E v \in EmailInputs : SetPresidentEmail(v)
  \/ \E v \in EmailInputs \ {<< >>} : SetTreasurerEmail(v)
  \/ \E v \in EmailInputs \ {<< >>} : SetAdvisorEmail(v)
  \/ \E f \in FormInputs : AddLineItem(f)
  \/ EditCell
  \/ AddRow
  \/ DeleteRow
  \/ ClearAll
  \/ Refresh

Spec == Init /\ [][Next]_vars

\* ------------------------------------------- Club Info, text by text

\* The characters of the texts explored exhaustively: an ordinary character
\* and the three the pattern and the trimming tell apart.
ClubAlphabet == { "a", "@", ".", " " }

\* Every text of at most n characters.
Texts(n) == UNION { [1..k -> ClubAlphabet] : k \in 0..n }

\* The placeholder's address with a space typed before and after it.
PADDED_NAME_AT_OIT_EDU == << " " >> \o NAME_AT_OIT_EDU \o << " " >>

ClubTexts(n) == Texts(n) \cup { NAME_AT_OIT, NAME_AT_OIT_EDU, PADDED_NAME_AT_OIT_EDU }

\* The four Club Info inputs with one of them holding any of the given texts.
ClubFillings(texts) ==
  { << w, NAME_AT_OIT_EDU, NAME_AT_OIT_EDU, NAME_AT_OIT_EDU >> : w \in texts }
  \cup { << n, w, NAME_AT_OIT_EDU, NAME_AT_OIT_EDU >> : n \in NameInputs, w \in texts }
  \cup { << n, NAME_AT_OIT_EDU, w, NAME_AT_OIT_EDU >> : n \in NameInputs, w \in texts }
  \cup { << n, NAME_AT_OIT_EDU, NAME_AT_OIT_EDU, w >> : n \in NameInputs, w \in texts }

\* A page on which no run has rendered anything yet.
BlankPage ==
  /\ captions = << >>
  /\ errors = {}
  /\ warnings = {}
  /\ info = {}
  /\ grand_total = NotRendered
  /\ download = NotRendered
  /\ budget_editor = NotRendered
  /\ clear_button = NotRendered

\* A session opened with the Club Info inputs already filled (the browser
\* restores them), before its first run.
InitClub ==
  /\ \E c \in ClubFillings(ClubTexts(MaxLen)) :
       /\ official_club_name = c[1]
       /\ president_email = c[2]
       /\ treasurer_email = c[3]
       /\ advisor_email = c[4]
  /\ expenses_df = << >>
  /\ last_valid_category_display = first_valid
  /\ submitted = FALSE
  /\ clicked = FALSE
  /\ cleared = FALSE
  /\ BlankPage

NextClub == Refresh

SpecClub == InitClub /\ [][NextClub]_vars

\* ------------------------------------------------- terms of the claims

Rows == 1..Len(expenses_df)

\* ClubInfo is invalid: a blank club name or an email the check refuses.
ClubInfoInvalid ==
  \/ Strip(official_club_name) = << >>
  \/ \E e \in {president_email, treasurer_email, advisor_email} : ~is_valid_email(e)

\* A description that is missing or holds nothing but whitespace.
BlankText(d) == d = NONE_TEXT \/ \A k \in 1..Len(d) : IsSpace(d[k])

SomeRowBlank == \E i \in Rows : BlankText(expenses_df[i].Description)

\* The leaves of the category tree, as pairs <<main, sub>>.
Leaves ==
  UNION { { << CATEGORY_TREE[k][1], CATEGORY_TREE[k][2][j] >> :
              j \in 1..Len(CATEGORY_TREE[k][2]) } : k \in 1..Len(CATEGORY_TREE) }

\* A dropdown entry that is a main-category header or a blank spacer.
NonLeafEntry(d) ==
  d = "" \/ \E k \in 1..Len(CATEGORY_TREE) : d = CATEGORY_TREE[k][1] \o ":"

\* A dropdown entry that is the indented name of a sub-category.
LeafEntry(d) == \E l \in Leaves : d = "   " \o l[2]

\* The add form submitted with a filling that passes every check.
ValidForm(f) ==
  LeafEntry(f.selected_display) /\ ~BlankText(f.description) /\ ~ClubInfoInvalid

\* The formulas about a submission are written outcome first: every step has
\* the stated outcome, or it is not a submission of the kind in question.

\* ----------------------------------------------------------------- C1

\* C1: after every event, every row of the budget table has
\* Total Amount = Qty. * Amount.
C1_TotalIsQtyTimesAmount ==
  \A i \in Rows :
    expenses_df[i].Total_Amount = expenses_df[i].Qty * expenses_df[i].Amount

\* A row added through the form whose quantity was then changed in the grid,
\* beside a row inserted through the grid.
C1_Witness ==
  \E i \in Rows : \E j \in Rows :
    /\ expenses_df[i].Qty = -1 /\ expenses_df[i].Amount = 1250
    /\ expenses_df[i].Total_Amount = -1250
    /\ expenses_df[j].Expense_Category = NONE /\ expenses_df[j].Total_Amount = 0

\* ----------------------------------------------------------------- C2

\* C2 as stated: a submission with a header or a spacer selected appends no row
\* and raises the header-rejection error, whatever ClubInfo is.
C2_HeaderAlwaysHeaderError ==
  [][\/ (Len(expenses_df') = Len(expenses_df) /\ errors' = {HEADER_ERROR})
     \/ \A f \in FormInputs :
          ~(NonLeafEntry(f.selected_display) /\ AddLineItem(f))]_vars

\* C2, amended: a submission with a header or a spacer selected appends no row;
\* it raises the header-rejection error when ClubInfo is valid and the Club Info
\* error when it is not.
C2_HeaderRejected ==
  [][\/ /\ Len(expenses_df') = Len(expenses_df)
        /\ errors' = IF ClubInfoInvalid THEN {CLUB_INFO_ERROR} ELSE {HEADER_ERROR}
     \/ \A f \in FormInputs :
          ~(NonLeafEntry(f.selected_display) /\ AddLineItem(f))]_vars

\* The header-rejection error on the page of a populated table.
C2_Witness == errors = {HEADER_ERROR} /\ expenses_df # << >>

\* ----------------------------------------------------------------- C3

\* C3: a submission whose description is empty after trimming appends no row.
C3_BlankDescriptionAppendsNothing ==
  [][\/ Len(expenses_df') = Len(expenses_df)
     \/ \A f \in FormInputs :
          ~(BlankText(f.description) /\ AddLineItem(f))]_vars

\* "Description is required." on the page of a populated table.
C3_Witness == errors = {DESCRIPTION_ERROR} /\ expenses_df # << >>

\* ----------------------------------------------------------------- C4

\* C4: with ClubInfo invalid, a submission is rejected with an error and
\* appends no row, whatever the form holds.
C4_InvalidClubRejects ==
  [][\/ (Len(expenses_df') = Len(expenses_df) /\ errors' = {CLUB_INFO_ERROR})
     \/ ~ClubInfoInvalid
     \/ \A f \in FormInputs : ~AddLineItem(f)]_vars

\* The Club Info error on the page of a populated table.
C4_Witness == errors = {CLUB_INFO_ERROR} /\ expenses_df # << >>

\* ----------------------------------------------------------------- C5

\* C5: while ClubInfo is invalid or a row has a blank description, the Download
\* CSV button is absent or disabled.
C5_GatedExportUnavailable ==
  (ClubInfoInvalid \/ SomeRowBlank) => (~download.rendered \/ download.disabled)

\* Valid ClubInfo, a row with a blank description, the button shown disabled.
C5_Witness ==
  ~ClubInfoInvalid /\ SomeRowBlank /\ download.rendered /\ download.disabled

\* ----------------------------------------------------------------- C6

\* C6: "Clear all line items" on a populated table leaves, in that one step,
\* zero rows and a grand total (the sum of Total Amount) of 0.
C6_ClearEmptiesTable ==
  [][(ClearAll /\ expenses_df # << >>)
       => (expenses_df' = << >> /\ SumTotals(expenses_df') = 0 /\ cleared')]_vars

\* The table just cleared while ClubInfo was invalid.
C6_Witness == clicked /\ cleared /\ expenses_df = << >> /\ ClubInfoInvalid

\* ----------------------------------------------------------------- C8

\* C8: a valid submission appends exactly one row at the end, holding the
\* composite "Main/Sub", the trimmed description and the entered quantity,
\* amount and date; the rows before it are unchanged; the submitted leaf
\* becomes the remembered category.
C8_ValidSubmissionAppends ==
  [][\A f \in FormInputs :
       \/ /\ Len(expenses_df') = Len(expenses_df) + 1
          /\ last_valid_category_display' = f.selected_display
          /\ SubSeq(expenses_df', 1, Len(expenses_df)) = expenses_df
          /\ LET row == expenses_df'[Len(expenses_df')]
             IN /\ \E l \in Leaves :
                     /\ f.selected_display = "   " \o l[2]
                     /\ row.Expense_Category = l[1] \o "/" \o l[2]
                /\ row.Description = Strip(f.description)
                /\ row.Qty = f.qty
                /\ row.Amount = f.amount
                /\ row.Date = f.expense_date
       \/ ~(ValidForm(f) /\ AddLineItem(f))]_vars

\* A second, identical row appended after the first, with a leaf other than
\* the initial default remembered.
C8_Witness ==
  /\ Len(expenses_df) = 2
  /\ expenses_df[1] = expenses_df[2]
  /\ expenses_df[2].Expense_Category = "Event Supplies/Food/snacks"
  /\ expenses_df[2].Description = << "P" >>
  /\ last_valid_category_display = "   Food/snacks"

\* ----------------------------------------------------------------- C9

\* C9: a rejected submission leaves the budget table and the remembered
\* category as they were.
C9_RejectionChangesNothing ==
  [][\/ /\ expenses_df' = expenses_df
        /\ last_valid_category_display' = last_valid_category_display
     \/ \A f \in FormInputs : ~(~ValidForm(f) /\ AddLineItem(f))]_vars

\* A rejection on a full table, with a leaf other than the default remembered.
C9_Witness ==
  /\ errors # {}
  /\ Len(expenses_df) = 2
  /\ last_valid_category_display = "   Food/snacks"

\* ---------------------------------------------------------------- C10

ExportGated == ClubInfoInvalid \/ SomeRowBlank

Part(t) == t # << >> /\ \A k \in 1..Len(t) : t[k] \notin {"@", " ", "\t"}

MatchesPattern(s) ==
  \E i \in 1..Len(s) : \E j \in 1..Len(s) :
    /\ i < j /\ s[i] = "@" /\ s[j] = "."
    /\ Part(SubSeq(s, 1, i - 1))
    /\ Part(SubSeq(s, i + 1, j - 1))
    /\ Part(SubSeq(s, j + 1, Len(s)))

\* s without its leading and trailing whitespace.
Trimmed(s) ==
  LET inked == {k \in 1..Len(s) : s[k] \notin {" ", "\t"}}
  IN IF inked = {} THEN << >>
     ELSE SubSeq(s, CHOOSE a \in inked : \A k \in inked : a <= k,
                    CHOOSE b \in inked : \A k \in inked : k <= b)

Emails == { president_email, treasurer_email, advisor_email }

\* A run has rendered the page.
PageRendered == info # {} \/ budget_editor.rendered

\* The page marks ClubInfo invalid: the warning and at least one caption.
MarkedInvalid == CLUB_INFO_WARNING \in warnings /\ captions # << >>

MarkedValid == CLUB_INFO_WARNING \notin warnings /\ captions = << >>

\* C7 as stated: ClubInfo is marked invalid whenever an email as entered fails
\* the pattern or the club name is empty; "name@oit" is invalid and
\* "name@oit.edu" is valid.
C7_InvalidAsEntered ==
  PageRendered =>
    /\ (official_club_name = << >> \/ \E e \in Emails : ~MatchesPattern(e))
         => MarkedInvalid
    /\ NAME_AT_OIT \in Emails => MarkedInvalid
    /\ (Emails = {NAME_AT_OIT_EDU} /\ Trimmed(official_club_name) # << >>)
         => MarkedValid

\* C7, amended: ClubInfo is marked invalid whenever an email, once its leading
\* and trailing whitespace is removed, fails the pattern, or the club name is
\* empty; "name@oit" is invalid and "name@oit.edu" is valid.
C7_InvalidAfterTrim ==
  PageRendered =>
    /\ (official_club_name = << >> \/ \E e \in Emails : ~MatchesPattern(Trimmed(e)))
         => MarkedInvalid
    /\ NAME_AT_OIT \in Emails => MarkedInvalid
    /\ (Emails = {NAME_AT_OIT_EDU} /\ Trimmed(official_club_name) # << >>)
         => MarkedValid

\* An email typed with a space on each side, which fails the pattern as entered,
\* on a page that marks ClubInfo valid.
C7_Witness ==
  /\ PageRendered
  /\ president_email = PADDED_NAME_AT_OIT_EDU
  /\ ~MatchesPattern(president_email)
  /\ MarkedValid

\* ---------------------------------------------------------------- C11

\* The sum of Total Amount over the first n rows of the session's table.
RECURSIVE TotalOfRows(_)
TotalOfRows(n) ==
  IF n = 0 THEN 0 ELSE TotalOfRows(n - 1) + expenses_df[n].Total_Amount

\* C11: after every event the Grand Total on the page is the sum of Total Amount
\* over the rows of the table, and a populated table always shows one; a table
\* holding the single row {qty 3, amount 12.50} has row total 37.50 and
\* grand total 37.50 (amounts in cents).
C11_GrandTotalIsSum ==
  /\ grand_total.rendered => grand_total.value = TotalOfRows(Len(expenses_df))
  /\ expenses_df # << >> => grand_total.rendered
  /\ (Len(expenses_df) = 1 /\ expenses_df[1].Qty = 3 /\ expenses_df[1].Amount = 1250)
       => (expenses_df[1].Total_Amount = 3750 /\ grand_total.value = 3750)

\* The page right after the form added {qty 3, amount 12.50} to an empty table.
C11_Witness ==
  /\ submitted /\ errors = {}
  /\ Len(expenses_df) = 1
  /\ expenses_df[1].Qty = 3 /\ expenses_df[1].Amount = 1250
  /\ grand_total.rendered /\ grand_total.value = 3750

\* ---------------------------------------------------------------- C12

\* The header line the claim fixes.
EXPORT_HEADER ==
  << "Official Club Name", "President Email", "Treasurer Email", "Advisor Email",
     "Expense Category", "Description", "Qty.", "Amount", "Total Amount", "Date" >>

\* The fields a line item contributes to its line, a missing cell left empty.
ItemFields(row) ==
  << IF row.Expense_Category = NONE THEN "" ELSE row.Expense_Category,
     IF row.Description = NONE_TEXT THEN << >> ELSE row.Description,
     row.Qty, row.Amount, row.Total_Amount,
     IF row.Date = NONE THEN "" ELSE row.Date >>

\* C12: the CSV behind the Download button is a snapshot of the whole current
\* table: the fixed header, then exactly one line per line item in table order,
\* each made of the four (trimmed) ClubInfo fields followed by the item's own
\* fields, with Total Amount = Qty. * Amount on every line.
C12_ExportIsSnapshot ==
  download.rendered =>
    /\ Len(download.data) = Len(expenses_df) + 1
    /\ download.data[1] = EXPORT_HEADER
    /\ \A i \in Rows :
         LET line == download.data[i + 1]
         IN /\ Len(line) = 10
            /\ SubSeq(line, 1, 4) =
                 << Trimmed(official_club_name), Trimmed(president_email),
                    Trimmed(treasurer_email), Trimmed(advisor_email) >>
            /\ SubSeq(line, 5, 10) = ItemFields(expenses_df[i])
            /\ line[9] = line[7] * line[8]

\* An enabled export of two line items of different categories, in table order.
C12_Witness ==
  /\ download.rendered /\ ~download.disabled
  /\ Len(expenses_df) = 2
  /\ expenses_df[1].Expense_Category = "Event Supplies/Food/snacks"
  /\ expenses_df[2].Expense_Category # "Event Supplies/Food/snacks"
  /\ download.data[2][5] = "Event Supplies/Food/snacks"
  /\ download.data[2][1] = << "C" >>

\* ---------------------------------------------------------------- C13

\* C13: in every reachable state every line item has a quantity that is a
\* non-negative integer and a unit amount that is non-negative.
C13_QuantitiesNonNegative ==
  \A i \in Rows : expenses_df[i].Qty \in Nat /\ expenses_df[i].Amount >= 0

\* ---------------------------------------------------------------- C14

\* The composite "Main/Sub" of a leaf of the category tree.
LeafComposites == { l[1] \o "/" \o l[2] : l \in Leaves }

\* C14: in every reachable state every line item has the composite "Main/Sub"
\* of a genuine leaf as its Expense Category.
C14_CategoryIsLeaf ==
  \A i \in Rows : expenses_df[i].Expense_Category \in LeafComposites

\* ---------------------------------------------------------------- C15

\* The page and session the run of grid edit e would leave, from this state.
GridEditRun(e) ==
  script_run(official_club_name, president_email, treasurer_email, advisor_email,
             expenses_df, last_valid_category_display, NoForm, e, FALSE).page

\* The grid edits that leave a row with a blank description: a description cell
\* emptied or set to whitespace, and an inserted row (its description is
\* missing).
BlankingEdits ==
  [ kind : {"Description"}, row : Rows, text : { << >>, << " " >>, << " ", "\t" >> },
    num : {0}, str : {""} ]
  \cup { AddRowEdit }

\* The table after the run holds the edit e as the grid returned it.
EditKept(e, after) ==
  IF e.kind = "add row"
  THEN /\ Len(after.expenses_df) = Len(expenses_df) + 1
       /\ after.expenses_df[Len(after.expenses_df)].Description = NONE_TEXT
       /\ \A i \in Rows :
            after.expenses_df[i].Description = expenses_df[i].Description
  ELSE /\ Len(after.expenses_df) = Len(expenses_df)
       /\ after.expenses_df[e.row].Description = e.text
       /\ \A i \in Rows \ {e.row} :
            after.expenses_df[i].Description = expenses_df[i].Description

ClearingEdits ==
  [ kind : {"Qty.", "Amount"}, row : Rows, text : {<< >>}, num : {NaN}, str : {""} ]
  \cup { AddRowEdit }

\* The row the edit e touched, in the table after the run.
EditedRow(e, after) ==
  IF e.kind = "add row" THEN after.expenses_df[Len(after.expenses_df)]
  ELSE after.expenses_df[e.row]

SubmitRun(f) ==
  script_run(official_club_name, president_email, treasurer_email, advisor_email,
             expenses_df, last_valid_category_display, f, NoEdit, FALSE).page

\* The one error the claim expects for a rejected submission: the first failing
\* check in the order ClubInfo, category, description.
FirstFailure(invalid, f) ==
  IF invalid THEN CLUB_INFO_ERROR
  ELSE IF ~LeafEntry(f.selected_display) THEN HEADER_ERROR
  ELSE DESCRIPTION_ERROR

\* C17: in every reachable state, the submission of any form that fails a check
\* reports exactly one error, that of the first failing check in the order
\* ClubInfo, category, description, and adds no row.
C17_FirstFailingCheckReported ==
  LET invalid == ClubInfoInvalid
  IN \A f \in FormInputs :
       (invalid \/ ~LeafEntry(f.selected_display) \/ BlankText(f.description)) =>
         LET after == SubmitRun(f)
         IN /\ after.errors = { FirstFailure(invalid, f) }
            /\ after.expenses_df = expenses_df

\* The page after a submission that passed the ClubInfo and category checks and
\* failed the last one, with a row already in the table.
C17_Witness ==
  /\ submitted /\ ~ClubInfoInvalid
  /\ errors = {DESCRIPTION_ERROR}
  /\ Len(expenses_df) = 1

\* ---------------------------------------------------------------- C18

\* An entry the dropdown offers.
DropdownEntry(d) == \E k \in 1..Len(DISPLAY_ITEMS) : DISPLAY_ITEMS[k] = d

\* C18: the remembered category starts as the entry of the first leaf of the
\* tree; after every step it is a leaf entry of the dropdown; and a step changes
\* it only if the step is a submission that passes every check, and then to the
\* leaf submitted.
C18_RememberedIsLeaf ==
  /\ last_valid_category_display = "   " \o CATEGORY_TREE[1][2][1]
  /\ [][/\ LeafEntry(last_valid_category_display')
        /\ DropdownEntry(last_valid_category_display')
        /\ \/ last_valid_category_display' = last_valid_category_display
           \/ \E f \in FormInputs :
                /\ last_valid_category_display' = f.selected_display
                /\ ValidForm(f)
                /\ AddLineItem(f)]_vars

\* A leaf other than the first one still remembered right after "Clear all line
\* items" emptied the table.
C18_Witness ==
  /\ cleared /\ expenses_df = << >>
  /\ last_valid_category_display = "   Food/snacks"

\* ---------------------------------------------------------------- C19

\* C19: in every reachable state whose table has at least one row, with ClubInfo
\* valid and no blank description, the Download CSV button is shown enabled,
\* whatever came before.
C19_ExportEnabledWhenUngated ==
  (expenses_df # << >> /\ ~ExportGated) => (download.rendered /\ ~download.disabled)

\* Export enabled on a table holding a row that was inserted through the grid:
\* the row came in with a missing description, which disabled the export until
\* the description was typed in.
C19_Witness ==
  /\ download.rendered /\ ~download.disabled
  /\ \E i \in Rows :
       /\ expenses_df[i].Expense_Category = NONE
       /\ expenses_df[i].Description = << "P" >>

\* ---------------------------------------------------------------- C20

\* C20: no step taken while ClubInfo is invalid increases the number of rows of
\* the budget table.
C20_NoNewRowWhileClubInvalid ==
  [][ClubInfoInvalid => Len(expenses_df') <= Len(expenses_df)]_vars

====
